---- MODULE Spec2Model ----
(***************************************************************************)
(* The commentary generator CLI, src/scripts/chess_commentary.py: main().  *)
(* One run of the process is one behaviour.  The environment (the command  *)
(* line and the two backend-availability flags) is fixed in Init; the      *)
(* collaborators (tokenizer, model) answer nondeterministically: each call *)
(* either returns a value or raises an exception.                          *)
(*                                                                         *)
(* Strings are sequences of pieces (<<"e", "4">>), so that f-string        *)
(* interpolation is concatenation and Python's `in` is a subsequence test. *)
(***************************************************************************)
EXTENDS Integers, Sequences, FiniteSets

----------------------------------------------------------------------------
(* Bounds of the model *)

\* longest token row the tokenizer returns for the prompt
MaxInLen == 2
\* longest token row generate returns
MaxOutLen == 3

----------------------------------------------------------------------------
(* Strings *)

\* Python's `sub in s` for strings: sub occurs in s as a contiguous run
IsSubstring(sub, s) ==
    \E i \in 0..(Len(s) - Len(sub)) :
        \A k \in 1..Len(sub) : s[i + k] = sub[k]

RECURSIVE Flatten(_)
\* concatenation of a sequence of strings
Flatten(ss) == IF ss = <<>> THEN <<>> ELSE Head(ss) \o Flatten(Tail(ss))

----------------------------------------------------------------------------
(* The command line *)

\* the six add_argument(..., required=True) options, by their dest
Flags == {"fen", "move", "side", "tag", "best_alt", "cp"}

\* an option that is absent from the command line
Missing == <<"<missing>">>

\* values an option is given on the command line (any string, also empty)
ArgValues == {<<>>, <<"c", "5">>}

\* variant: --cp declared without required=True
MissingFlagsCpOptional(av) == {f \in Flags \ {"cp"} : av[f] = Missing}

\* what parse_args() decides: the required options that are absent
MissingFlags(av) == {f \in Flags : av[f] = Missing}

----------------------------------------------------------------------------
(* Exceptions *)

NoExc == [kind |-> "none", msg |-> <<>>]

\* the text the fallback looks for in str(e)
Indicator == <<"probability", "tensor", "contains">>

\* what model.generate can raise at its first call
GenerateErrors ==
    { [kind |-> k, msg |-> m] :
        k \in {"RuntimeError", "ValueError"},
        m \in { <<"probability", "tensor", "contains", "inf">>,
                <<"probability", "tensor">>,
                <<"out", "of", "memory">> } }

\* what any other collaborator call can raise
CallErrors ==
    { [kind |-> "RuntimeError", msg |-> <<"probability", "tensor", "contains", "nan">>],
      [kind |-> "ValueError", msg |-> <<"bad", "value">>] }

----------------------------------------------------------------------------
(* Lines of the diagnostic stream *)

LoadingLine(dev, dt) == <<"Loading model on", dev, dt>>
RetryLine == <<"MPS generation failed; retrying on CPU.">>
ErrorLine(e) == <<"Error:">> \o e.msg
UsageLine == <<"usage:", "error: the following arguments are required">>

----------------------------------------------------------------------------
(* Tokens *)

SpecialTokens == {"<eos>"}
Tokens == SpecialTokens \cup {"t1"}

\* the text of each ordinary token
Vocab == [t \in Tokens \ SpecialTokens |-> <<"word", t>>]

SeqsUpTo(S, lo, hi) == UNION { [1..n -> S] : n \in lo..hi }

\* rows apply_chat_template can return (never empty: the template adds tokens)
InputRows == SeqsUpTo(Tokens, 1, MaxInLen)
\* rows generate can return
OutputRows == SeqsUpTo(Tokens, 0, MaxOutLen)

----------------------------------------------------------------------------
(* Pure parts of main() *)

\* variant: half precision on every accelerator
DevicePlanHalfOnMps(cuda, mps) ==
    IF cuda THEN <<"cuda", "float16">>
    ELSE IF mps THEN <<"mps", "float16">>
    ELSE <<"cpu", "float32">>

\* the if/elif/else over torch.cuda.is_available() and torch.backends.mps.is_available()
DevicePlan(cuda, mps) ==
    IF cuda THEN <<"cuda", "float16">>
    ELSE IF mps THEN <<"mps", "float32">>
    ELSE <<"cpu", "float32">>

\* the system message's content, a fixed constant
SystemText ==
    <<"Generate professional chess commentary in the specified language. For Type=standard use 30-40 words. For Type=explanation, explain the best move briefly (<=50 words). Return exactly: Commentary, Predicted ELO, Verified Classification.">>

\* variant: the BestAlt line interpolates args.move
UserContentWrongField(a) ==
    Flatten(<< <<"LanguageL: English\nLangCode: en\nType: standard\nFEN: ">>, a["fen"],
               <<"\nMoveSAN: ">>, a["move"],
               <<"\nSide: ">>, a["side"],
               <<"\nActor: bot\nTag: ">>, a["tag"],
               <<"\nBestAlt: ">>, a["move"],
               <<"\nCP: ">>, a["cp"] >>)

\* the f-string of the user message
UserContent(a) ==
    Flatten(<< <<"LanguageL: English\nLangCode: en\nType: standard\nFEN: ">>, a["fen"],
               <<"\nMoveSAN: ">>, a["move"],
               <<"\nSide: ">>, a["side"],
               <<"\nActor: bot\nTag: ">>, a["tag"],
               <<"\nBestAlt: ">>, a["best_alt"],
               <<"\nCP: ">>, a["cp"] >>)

\* the messages list
Messages(a) ==
    << [role |-> "system", content |-> SystemText],
       [role |-> "user", content |-> UserContent(a)] >>

\* keyword arguments of the first model.generate call
GenerateKwargs == <<"max_new_tokens=256", "temperature=0.7", "do_sample=True">>

\* keyword arguments of the model.generate call of the CPU retry
RetryKwargs == <<"max_new_tokens=256", "temperature=0.7", "do_sample=True">>

\* the condition of the fallback, inside `except RuntimeError as e`
RetryCondition(dev, e) == dev = "mps" /\ IsSubstring(Indicator, e.msg)

\* variant: `except Exception` in the inner handler
CaughtByInnerAny(e) == e.kind \in {"RuntimeError", "ValueError"}

\* `except RuntimeError`: the exceptions the inner handler catches
CaughtByInner(e) == e.kind = "RuntimeError"

\* variant: the result of .to() is dropped
MovedToNoop(x, dev) == x

\* model.to(dev), tensor.to(dev): the same object or value on another device
MovedTo(x, dev) == [x EXCEPT !.dev = dev]

\* variant: the slice starts one token late
SliceFromOffByOne(s, n) == SubSeq(s, n + 2, Len(s))

\* s[n:] of Python, n >= 0
SliceFrom(s, n) == SubSeq(s, n + 1, Len(s))

\* tokenizer.decode(row, skip_special_tokens=True)
Decode(row) ==
    LET kept == SelectSeq(row, LAMBDA t : t \notin SpecialTokens)
    IN  Flatten([i \in 1..Len(kept) |-> Vocab[kept[i]]])

\* inputs.shape[1]
InputLen(inp) == Len(inp.batch[1])

\* outputs[0][inputs.shape[1]:] decoded
GeneratedText(outs, inp) == Decode(SliceFrom(outs[1], InputLen(inp)))

----------------------------------------------------------------------------
(* State *)

VARIABLES
    argv,        \* environment: each required option's value, or Missing
    cudaAvail,   \* environment: torch.cuda.is_available()
    mpsAvail,    \* environment: torch.backends.mps.is_available()
    pc,          \* position in main()
    args,        \* the parsed namespace
    device,
    dtype,
    model,       \* [dtype, dev], dev = "none" before the load
    messages,
    inputs,      \* [batch, dev]: a (1, N) tensor, batch = <<>> before tokenization
    outputs,     \* batch returned by generate, <<>> before it returns
    exc,         \* `e` of `except RuntimeError as e`
    raised,      \* `e` of `except Exception as e`
    stderr,      \* lines written to the diagnostic stream
    stdout,      \* texts written to standard output
    exitCode,    \* -1 while the process runs
    calls        \* the collaborator calls made so far, in order

vars == <<argv, cudaAvail, mpsAvail, pc, args, device, dtype, model, messages,
          inputs, outputs, exc, raised, stderr, stdout, exitCode, calls>>

env == <<argv, cudaAvail, mpsAvail>>

Init ==
    /\ argv \in [Flags -> ArgValues \cup {Missing}]
    /\ cudaAvail \in BOOLEAN
    /\ mpsAvail \in BOOLEAN
    /\ pc = "parse_args"
    /\ args = [f \in Flags |-> Missing]
    /\ device = "none"
    /\ dtype = "none"
    /\ model = [dtype |-> "none", dev |-> "none"]
    /\ messages = <<>>
    /\ inputs = [batch |-> <<>>, dev |-> "none"]
    /\ outputs = <<>>
    /\ exc = NoExc
    /\ raised = NoExc
    /\ stderr = <<>>
    /\ stdout = <<>>
    /\ exitCode = -1
    /\ calls = <<>>

----------------------------------------------------------------------------
(* Exits *)

\* variant: the handler prints the error and falls off the end of main()
TopLevelHandlerNoExit(e) ==
    /\ raised' = e
    /\ stderr' = Append(stderr, ErrorLine(e))
    /\ exitCode' = 0
    /\ pc' = "done"

\* `except Exception as e`: print the error, sys.exit(1)
TopLevelHandler(e) ==
    /\ raised' = e
    /\ stderr' = Append(stderr, ErrorLine(e))
    /\ exitCode' = 1
    /\ pc' = "done"

\* parser.error(): argparse prints the usage and exits with status 2
UsageExit ==
    /\ stderr' = Append(stderr, UsageLine)
    /\ exitCode' = 2
    /\ pc' = "done"

----------------------------------------------------------------------------
(* Steps of main() *)

\* parser.parse_args(), outside the try
ParseArgs ==
    /\ pc = "parse_args"
    /\ \/ /\ MissingFlags(argv) # {}
          /\ UsageExit
          /\ UNCHANGED args
       \/ /\ MissingFlags(argv) = {}
          /\ args' = argv
          /\ pc' = "determine_device"
          /\ UNCHANGED <<stderr, exitCode>>
    /\ UNCHANGED <<env, device, dtype, model, messages, inputs, outputs, exc,
                   raised, stdout, calls>>

\* the availability probes, the device/dtype choice and the "Loading model" line
DetermineDevice ==
    /\ pc = "determine_device"
    /\ calls' = calls \o (IF cudaAvail THEN << <<"torch.cuda.is_available">> >>
                          ELSE << <<"torch.cuda.is_available">>,
                                  <<"torch.backends.mps.is_available">> >>)
    /\ \/ /\ device' = DevicePlan(cudaAvail, mpsAvail)[1]
          /\ dtype' = DevicePlan(cudaAvail, mpsAvail)[2]
          /\ stderr' = Append(stderr, LoadingLine(device', dtype'))
          /\ pc' = "load_tokenizer"
          /\ UNCHANGED <<raised, exitCode>>
       \/ /\ \E e \in CallErrors : TopLevelHandler(e)
          /\ UNCHANGED <<device, dtype>>
    /\ UNCHANGED <<env, args, model, messages, inputs, outputs, exc, stdout>>

\* AutoTokenizer.from_pretrained(model_id)
LoadTokenizer ==
    /\ pc = "load_tokenizer"
    /\ calls' = Append(calls, <<"AutoTokenizer.from_pretrained">>)
    /\ \/ /\ pc' = "load_model"
          /\ UNCHANGED <<raised, stderr, exitCode>>
       \/ \E e \in CallErrors : TopLevelHandler(e)
    /\ UNCHANGED <<env, args, device, dtype, model, messages, inputs, outputs,
                   exc, stdout>>

\* AutoModelForCausalLM.from_pretrained(model_id, dtype=dtype).to(device)
LoadModel ==
    /\ pc = "load_model"
    /\ \/ /\ calls' = calls \o << <<"AutoModelForCausalLM.from_pretrained", dtype>>,
                                  <<"model.to", device>> >>
          /\ model' = MovedTo([dtype |-> dtype, dev |-> "cpu"], device)
          /\ pc' = "build_messages"
          /\ UNCHANGED <<raised, stderr, exitCode>>
       \/ /\ calls' = calls \o << <<"AutoModelForCausalLM.from_pretrained", dtype>>,
                                  <<"model.to", device>> >>
          /\ \E e \in CallErrors : TopLevelHandler(e)
          /\ UNCHANGED model
       \/ /\ calls' = Append(calls, <<"AutoModelForCausalLM.from_pretrained", dtype>>)
          /\ \E e \in CallErrors : TopLevelHandler(e)
          /\ UNCHANGED model
    /\ UNCHANGED <<env, args, device, dtype, messages, inputs, outputs, exc, stdout>>

\* messages = [...]
BuildMessages ==
    /\ pc = "build_messages"
    /\ messages' = Messages(args)
    /\ pc' = "apply_chat_template"
    /\ UNCHANGED <<env, args, device, dtype, model, inputs, outputs, exc, raised,
                   stderr, stdout, exitCode, calls>>

\* tokenizer.apply_chat_template(messages, ...).to(device)
ApplyChatTemplate ==
    /\ pc = "apply_chat_template"
    /\ \/ \E row \in InputRows :
            /\ calls' = calls \o << <<"apply_chat_template">> \o row,
                                    <<"inputs.to", device>> >>
            /\ inputs' = MovedTo([batch |-> <<row>>, dev |-> "cpu"], device)
            /\ pc' = "generate"
            /\ UNCHANGED <<raised, stderr, exitCode>>
       \/ \E row \in InputRows :
            /\ calls' = calls \o << <<"apply_chat_template">> \o row,
                                    <<"inputs.to", device>> >>
            /\ \E e \in CallErrors : TopLevelHandler(e)
            /\ UNCHANGED inputs
       \/ /\ calls' = Append(calls, <<"apply_chat_template">>)
          /\ \E e \in CallErrors : TopLevelHandler(e)
          /\ UNCHANGED inputs
    /\ UNCHANGED <<env, args, device, dtype, model, messages, outputs, exc, stdout>>

\* variant: the fallback without its diagnostic line
EnterFallbackSilent ==
    /\ stderr' = stderr
    /\ device' = "cpu"
    /\ pc' = "model_to_cpu"

\* the start of the fallback branch: the "retrying" line and `device = "cpu"`
EnterFallback ==
    /\ stderr' = Append(stderr, RetryLine)
    /\ device' = "cpu"
    /\ pc' = "model_to_cpu"

\* a model.generate call as the collaborator sees it
GenerateCall(kwargs) == <<"generate", model.dev, inputs.dev, device>> \o kwargs

\* the first model.generate call and its `except RuntimeError` clause up to
\* `device = "cpu"`
Generate ==
    /\ pc = "generate"
    /\ calls' = Append(calls, GenerateCall(GenerateKwargs))
    /\ \/ \E row \in OutputRows :
            /\ outputs' = <<row>>
            /\ pc' = "decode"
            /\ UNCHANGED <<device, exc, raised, stderr, exitCode>>
       \/ \E e \in GenerateErrors :
            /\ CaughtByInner(e)
            /\ RetryCondition(device, e)
            /\ exc' = e
            /\ EnterFallback
            /\ UNCHANGED <<outputs, raised, exitCode>>
       \/ \E e \in GenerateErrors :
            /\ CaughtByInner(e)
            /\ ~RetryCondition(device, e)
            /\ exc' = e
            /\ TopLevelHandler(e)
            /\ UNCHANGED <<device, outputs>>
       \/ \E e \in GenerateErrors :
            /\ ~CaughtByInner(e)
            /\ TopLevelHandler(e)
            /\ UNCHANGED <<device, outputs, exc>>
    /\ UNCHANGED <<env, args, dtype, model, messages, inputs, stdout>>

\* model = model.to(device), in the fallback
MoveModelToCpu ==
    /\ pc = "model_to_cpu"
    /\ calls' = Append(calls, <<"model.to", device>>)
    /\ \/ /\ model' = MovedTo(model, device)
          /\ pc' = "inputs_to_cpu"
          /\ UNCHANGED <<raised, stderr, exitCode>>
       \/ /\ \E e \in CallErrors : TopLevelHandler(e)
          /\ UNCHANGED model
    /\ UNCHANGED <<env, args, device, dtype, messages, inputs, outputs, exc, stdout>>

\* inputs = inputs.to(device), in the fallback
MoveInputsToCpu ==
    /\ pc = "inputs_to_cpu"
    /\ calls' = Append(calls, <<"inputs.to", device>>)
    /\ \/ /\ inputs' = MovedTo(inputs, device)
          /\ pc' = "retry_generate"
          /\ UNCHANGED <<raised, stderr, exitCode>>
       \/ /\ \E e \in CallErrors : TopLevelHandler(e)
          /\ UNCHANGED inputs
    /\ UNCHANGED <<env, args, device, dtype, model, messages, outputs, exc, stdout>>

\* variant: a failed retry is retried
RetryGenerateAgain ==
    /\ pc = "retry_generate"
    /\ calls' = Append(calls, GenerateCall(RetryKwargs))
    /\ \/ \E row \in OutputRows :
            /\ outputs' = <<row>>
            /\ pc' = "decode"
       \/ /\ pc' = "retry_generate"
          /\ UNCHANGED outputs
    /\ UNCHANGED <<env, args, device, dtype, model, messages, inputs, exc, stdout,
                   raised, stderr, exitCode>>

\* the model.generate call of the fallback; what it raises is not caught there
RetryGenerate ==
    /\ pc = "retry_generate"
    /\ calls' = Append(calls, GenerateCall(RetryKwargs))
    /\ \/ \E row \in OutputRows :
            /\ outputs' = <<row>>
            /\ pc' = "decode"
            /\ UNCHANGED <<raised, stderr, exitCode>>
       \/ /\ \E e \in GenerateErrors : TopLevelHandler(e)
          /\ UNCHANGED outputs
    /\ UNCHANGED <<env, args, device, dtype, model, messages, inputs, exc, stdout>>

\* variant: print(response) before the second decode
DecodeAndPrintEarly ==
    /\ pc = "decode"
    /\ calls' = calls \o << <<"decode">> \o outputs[1],
                            <<"decode">> \o SliceFrom(outputs[1], InputLen(inputs)) >>
    /\ stdout' = Append(stdout, Decode(outputs[1]))
    /\ \/ /\ exitCode' = 0
          /\ pc' = "done"
          /\ UNCHANGED <<raised, stderr>>
       \/ \E e \in CallErrors : TopLevelHandler(e)
    /\ UNCHANGED <<env, args, device, dtype, model, messages, inputs, outputs, exc>>

\* response = decode(outputs[0]); generated_text = decode(outputs[0][N:]);
\* print(generated_text); main returns and the process exits with status 0
DecodeAndPrint ==
    /\ pc = "decode"
    /\ \/ /\ calls' = calls \o << <<"decode">> \o outputs[1],
                                  <<"decode">> \o SliceFrom(outputs[1], InputLen(inputs)) >>
          /\ stdout' = Append(stdout, GeneratedText(outputs, inputs))
          /\ exitCode' = 0
          /\ pc' = "done"
          /\ UNCHANGED <<raised, stderr>>
       \/ /\ calls' = calls \o << <<"decode">> \o outputs[1],
                                  <<"decode">> \o SliceFrom(outputs[1], InputLen(inputs)) >>
          /\ \E e \in CallErrors : TopLevelHandler(e)
          /\ UNCHANGED stdout
       \/ /\ calls' = Append(calls, <<"decode">> \o outputs[1])
          /\ \E e \in CallErrors : TopLevelHandler(e)
          /\ UNCHANGED stdout
    /\ UNCHANGED <<env, args, device, dtype, model, messages, inputs, outputs, exc>>

Next ==
    \/ ParseArgs
    \/ DetermineDevice
    \/ LoadTokenizer
    \/ LoadModel
    \/ BuildMessages
    \/ ApplyChatTemplate
    \/ Generate
    \/ MoveModelToCpu
    \/ MoveInputsToCpu
    \/ RetryGenerate
    \/ DecodeAndPrint

Spec == Init /\ [][Next]_vars

----------------------------------------------------------------------------
(* Observations on a run *)

Done == pc = "done"

\* the model.generate calls made so far
GenerateCalls == SelectSeq(calls, LAMBDA c : c[1] = "generate")

\* the calls of one collaborator function made so far
CallsOf(name) == SelectSeq(calls, LAMBDA c : c[1] = name)

InStderr(line) == \E i \in 1..Len(stderr) : stderr[i] = line

SomeArgMissing == \E f \in Flags : argv[f] = Missing

\* the device and precision the "Loading model" line reports
Announced == IF stderr # <<>> /\ stderr[1][1] = "Loading model on"
             THEN <<stderr[1][2], stderr[1][3]>>
             ELSE <<"none", "none">>

\* the exception the first generate call ended with, NoExc if it returned or
\* was not made
FirstGenerateError ==
    IF exc # NoExc THEN exc
    ELSE IF /\ raised # NoExc
            /\ Len(GenerateCalls) = 1
            /\ calls[Len(calls)][1] = "generate"
         THEN raised
         ELSE NoExc

HasIndicator(e) ==
    \E i \in 1..Len(e.msg) :
        /\ i + 2 <= Len(e.msg)
        /\ e.msg[i] = "probability" /\ e.msg[i + 1] = "tensor" /\ e.msg[i + 2] = "contains"

\* the three conditions of the fallback hold of the first generate call
Recoverable ==
    /\ Announced[1] = "mps"
    /\ FirstGenerateError.kind = "RuntimeError"
    /\ HasIndicator(FirstGenerateError)

TheKwargs == <<"max_new_tokens=256", "temperature=0.7", "do_sample=True">>

----------------------------------------------------------------------------
(* C1 *)

\* C1 as stated: once the first generate call has failed recoverably, the
\* finished run has made exactly two generate calls.
C1_ExactlyOneMoreCall ==
    (Done /\ Recoverable) => Len(GenerateCalls) = 2

\* C1, amended: after a recoverable failure of the first generate call,
\* generate is called at most one more time, and exactly one more time when
\* both moves to the CPU succeeded; that call is made with device "cpu" and
\* the sampling parameters of the first call; no run makes a third call.
C1_RetryAtMostOnce ==
    /\ Len(GenerateCalls) <= 2
    /\ (Done /\ Recoverable /\ model.dev = "cpu" /\ inputs.dev = "cpu")
          => Len(GenerateCalls) = 2
    /\ Len(GenerateCalls) = 2 =>
          /\ Recoverable
          /\ GenerateCalls[2][4] = "cpu"
          /\ SubSeq(GenerateCalls[1], 5, 7) = TheKwargs
          /\ SubSeq(GenerateCalls[2], 5, 7) = TheKwargs

\* a finished run whose retry call failed as the first call had
C1_Witness ==
    /\ Done
    /\ Len(GenerateCalls) = 2
    /\ exitCode = 1
    /\ raised = exc

----------------------------------------------------------------------------
(* C2 *)

\* C2: the retry happens only when the device is "mps", the failure is a
\* RuntimeError and its message contains the indicator; after any other
\* failure of the first generate call the run is over with one generate
\* call, the device unchanged, the failure reported and exit code 1.
C2_RetryOnlyWhenRecoverable ==
    /\ (InStderr(RetryLine) \/ Len(GenerateCalls) = 2 \/ device # Announced[1])
          => Recoverable
    /\ (FirstGenerateError # NoExc /\ ~Recoverable) =>
          /\ Done
          /\ Len(GenerateCalls) = 1
          /\ device = Announced[1]
          /\ raised = FirstGenerateError
          /\ stderr[Len(stderr)] = <<"Error:">> \o FirstGenerateError.msg
          /\ exitCode = 1

\* on "mps", a ValueError whose message has the indicator ended the run
C2_Witness ==
    /\ Done
    /\ Announced[1] = "mps"
    /\ FirstGenerateError.kind = "ValueError"
    /\ HasIndicator(FirstGenerateError)
    /\ Len(GenerateCalls) = 1

----------------------------------------------------------------------------
(* C3 *)

\* C3 as stated: a run with a required argument missing exits with code 1.
C3_MissingArgExitsOne ==
    (Done /\ SomeArgMissing) => exitCode = 1

\* C3, amended: a run with a required argument missing exits with code 2
\* (argparse's usage error), and no device probe, tokenizer load or model
\* load is ever made in it.
C3_MissingArgExitsTwo ==
    SomeArgMissing =>
        /\ calls = <<>>
        /\ device = "none"
        /\ model.dev = "none"
        /\ pc \in {"parse_args", "done"}
        /\ Done => (exitCode = 2 /\ stderr = <<UsageLine>> /\ stdout = <<>>)

\* a finished run in which exactly --cp was missing
C3_Witness ==
    /\ Done
    /\ {f \in Flags : argv[f] = Missing} = {"cp"}

----------------------------------------------------------------------------
(* C4 *)

\* C4 as stated: every run that fails, at argument ingestion or later, ends
\* with the "Error:" line and exit code 1.
C4_EveryFailureCaught ==
    (Done /\ stdout = <<>>) =>
        /\ exitCode = 1
        /\ stderr[Len(stderr)][1] = "Error:"

\* C4, amended: every failure inside the try block (device selection, the
\* loads, tokenization, an unrecoverable first generate call, the moves to
\* the CPU, the retry call, decoding) ends the run with "Error: <message>"
\* as the last diagnostic line and exit code 1; a failure of argument
\* ingestion, which runs before the try block, ends it with argparse's
\* usage error and exit code 2.
C4_FailuresInTryCaught ==
    /\ (Done /\ stdout = <<>> /\ ~SomeArgMissing) =>
          /\ raised # NoExc
          /\ exitCode = 1
          /\ stderr[Len(stderr)] = <<"Error:">> \o raised.msg
    /\ raised # NoExc => (Done /\ exitCode = 1)
    /\ (Done /\ SomeArgMissing) => (exitCode = 2 /\ raised = NoExc)
    /\ exitCode \in {-1, 0, 1, 2}

\* the move of the inputs to the CPU failed and was reported
C4_Witness ==
    /\ Done
    /\ exitCode = 1
    /\ calls[Len(calls)] = <<"inputs.to", "cpu">>
    /\ Len(GenerateCalls) = 1
    /\ exc # NoExc

----------------------------------------------------------------------------
(* C5 *)

\* C5: the device and precision chosen are the function of the two
\* availability flags the table gives, and "mps" is never paired with
\* float16, also after the fallback has set the device to "cpu".
C5_DevicePlan ==
    /\ Announced # <<"none", "none">> =>
          /\ cudaAvail => Announced = <<"cuda", "float16">>
          /\ (~cudaAvail /\ mpsAvail) => Announced = <<"mps", "float32">>
          /\ (~cudaAvail /\ ~mpsAvail) => Announced = <<"cpu", "float32">>
          /\ dtype = Announced[2]
          /\ device \in {Announced[1], "cpu"}
    /\ device # "none" => Announced # <<"none", "none">>
    /\ ~(device = "mps" /\ dtype = "float16")
    /\ ~(model.dev = "mps" /\ model.dtype = "float16")

\* after the fallback: chosen on "mps", now on "cpu" in float32
C5_Witness ==
    /\ ~cudaAvail /\ mpsAvail
    /\ Announced = <<"mps", "float32">>
    /\ device = "cpu"
    /\ dtype = "float32"

----------------------------------------------------------------------------
(* C6 *)

Succeeded == exitCode = 0 /\ Len(stdout) = 1
Failed == exitCode = 1 /\ stderr # <<>> /\ stderr[Len(stderr)][1] = "Error:"
UsageError == exitCode = 2 /\ stderr # <<>> /\ stderr[Len(stderr)] = UsageLine

----------------------------------------------------------------------------
(* C7 *)

\* the row apply_chat_template returned
OriginalInput == Tail(CallsOf("apply_chat_template")[1])

\* C7: the text printed is the decoding of the output tokens at 0-based
\* positions N, N+1, ... where N is the length of the original input row,
\* after the first generate call and after the retry alike.
C7_PrintsTokensFromN ==
    (Done /\ exitCode = 0) =>
        LET N   == Len(OriginalInput)
            out == outputs[1]
            gen == [i \in 1..(IF Len(out) > N THEN Len(out) - N ELSE 0) |-> out[N + i]]
        IN  /\ stdout = <<Decode(gen)>>
            /\ InputLen(inputs) = N

\* the retry returned two tokens after a two-token prompt and both were printed
C7_Witness ==
    /\ Done /\ exitCode = 0
    /\ Len(GenerateCalls) = 2
    /\ Len(OriginalInput) = 2
    /\ outputs[1] = <<"<eos>", "t1", "t1">>
    /\ stdout = << <<"word", "t1">> >>

----------------------------------------------------------------------------
(* C8 *)

\* C8: the device/precision line is on the diagnostic stream before the
\* first generate call; the "retrying" line is written exactly when the
\* fallback fires, after the first call failed and before the retry call.
C8_DiagnosticOrder ==
    /\ exitCode = 0 => Len(GenerateCalls) >= 1
    /\ Len(GenerateCalls) >= 1 =>
          /\ stderr # <<>>
          /\ stderr[1] = <<"Loading model on", GenerateCalls[1][4], dtype>>
    /\ InStderr(RetryLine) <=> Recoverable
    /\ InStderr(RetryLine) =>
          /\ Len(GenerateCalls) >= 1
          /\ FirstGenerateError # NoExc
          /\ stderr[2] = RetryLine
          /\ \A i \in 1..Len(stderr) : stderr[i] = RetryLine => i = 2
    /\ Len(GenerateCalls) = 2 => InStderr(RetryLine)

\* a run that exited with code 0 after the fallback
C8_Witness ==
    /\ Done /\ exitCode = 0
    /\ stderr = <<LoadingLine("mps", "float32"), RetryLine>>
    /\ Len(GenerateCalls) = 2

----------------------------------------------------------------------------
(* C9 *)

\* C9: the prompt is two messages, "system" with the fixed instruction text
\* and then "user", and the user message contains each of the six values
\* given on the command line as a contiguous run; the namespace holds the
\* values unaltered.
C9_PromptHoldsEveryValue ==
    messages # <<>> =>
        /\ Len(messages) = 2
        /\ messages[1].role = "system"
        /\ messages[1].content = SystemText
        /\ messages[2].role = "user"
        /\ \A f \in Flags :
              \E i \in 0..(Len(messages[2].content) - Len(argv[f])) :
                  SubSeq(messages[2].content, i + 1, i + Len(argv[f])) = argv[f]
        /\ args = argv

\* the prompt of a command line whose only non-empty value is --best_alt
C9_Witness ==
    /\ messages # <<>>
    /\ argv["best_alt"] = <<"c", "5">>
    /\ \A f \in Flags \ {"best_alt"} : argv[f] = <<>>

----------------------------------------------------------------------------
(* C10 *)

\* C10: at every generate call the model and the inputs are on the device
\* the device variable names; the retry call finds both on "cpu"; if a move
\* to the CPU failed, the retry call was never made.
C10_SameDeviceAtGenerate ==
    /\ \A i \in 1..Len(GenerateCalls) :
          /\ GenerateCalls[i][2] = GenerateCalls[i][4]
          /\ GenerateCalls[i][3] = GenerateCalls[i][4]
    /\ Len(GenerateCalls) >= 1 => GenerateCalls[1][4] = Announced[1]
    /\ Len(GenerateCalls) = 2 =>
          /\ GenerateCalls[2][2] = "cpu"
          /\ GenerateCalls[2][3] = "cpu"
          /\ GenerateCalls[2][4] = "cpu"
    /\ pc \in {"generate", "retry_generate"} =>
          (model.dev = device /\ inputs.dev = device)
    /\ (Done /\ Recoverable /\ (model.dev # "cpu" \/ inputs.dev # "cpu"))
          => Len(GenerateCalls) = 1

\* the retry call has been made, with everything on "cpu"
C10_Witness ==
    /\ Len(GenerateCalls) = 2
    /\ GenerateCalls[1][2] = "mps"
    /\ model.dev = "cpu"
    /\ inputs.dev = "cpu"

====
